---- MODULE Spec2Model ----
(***************************************************************************)
(* State-machine model of appyt.py: one Streamlit session that uploads a   *)
(* video, supervises one ffmpeg child at a time and relays its output to   *)
(* the session log.                                                        *)
(*                                                                         *)
(* The UI controller is the script main(): every button press is one pass  *)
(* of the script.  A pass that blocks (Popen, terminate, wait) is cut at   *)
(* the blocking call, so that the child and the relay threads can take     *)
(* steps in between, as they do in the program.                            *)
(***************************************************************************)
EXTENDS Integers, Sequences, FiniteSets, TLC

\* ---------------------------------------------------------------- bounds
MaxStarts == 2      \* start requests that get as far as Popen
MaxReads  == 1      \* read steps the relay threads take that yield lines or fail
MaxClock  == 2      \* seconds the wall clock advances during the uploads
MaxUploads == 3     \* passes of the script with a file in the uploader
MaxKeyLen == 3      \* characters of a stream key
MaxChunks == 2      \* whole chunks in the largest upload, less its tail

\* -------------------------------------------------------------- constants
LOG_LIMIT == 200    \* logs[-200:]
None == 0           \* st.session_state.get("ffmpeg_proc", None)
CHUNK_SIZE == 1048576  \* chunk_size = 1024 * 1024

Pids == 1..MaxStarts
\* Lines one read step of the relay drains from the pipe: one line, or a
\* full log's worth.
Bursts == {1, LOG_LIMIT}

Stems == {<<"video">>, <<"clip">>}
Suffixes == {".mp4", ".flv"}

\* video_path = None
NoPath == "None"
\* The files the page can offer; a stream key is a string of characters,
\* kept as the sequence of them.
VideoPaths == {"video.mp4", "uploads/clip.mp4"}
KeyChars == {"a", "-", " "}
\* The selectbox: its placeholder or a file on the server.
Placeholder == "-- pilih --"
Selections == {Placeholder, "video.mp4"}
\* The uploader in a pass: empty, or a file whose save succeeds or raises;
\* str(dest_path) of a save that succeeds.
UploadOutcomes == {"none", "saved", "failed"}
SavedFile == "uploads/clip.mp4"
Keys == UNION {[1..n -> KeyChars] : n \in 1..MaxKeyLen}

VARIABLES
    ffmpeg_proc,   \* st.session_state["ffmpeg_proc"]: None or a pid
    hasProcKey,    \* "ffmpeg_proc" in st.session_state
    sessLogs,      \* st.session_state["logs"]: the LogBuffer
    logs,          \* the list `logs` the running pass's append_log closes over
    uiPc,          \* where the running pass of main() is
    procs,         \* the children: "unborn", "alive" or "exited"
    relay,         \* the reader threads: "none", "reading" or "done"
    relayLogs,     \* the list `logs` each reader thread's writer closes over
    reads,         \* read steps the reader threads have taken
    sigs,          \* signals delivered to each child, in order
    nStarts,       \* start requests that got as far as Popen
    written,       \* append_log calls made so far by each writer (history)
    lastOp,        \* the step just taken and its outcome (history)
    files,         \* names present in uploads/
    clock,         \* int(time.time())
    nUploads,      \* passes that saved an upload
    lastWrite,     \* the last open(dest_path, "wb") and what it found (history)
    video_path,    \* start_ffmpeg's argument video_path
    stream_key,    \* start_ffmpeg's argument stream_key
    is_shorts,     \* start_ffmpeg's argument is_shorts
    cmd,           \* the list cmd start_ffmpeg builds; <<>> before it has
    srcSize,       \* bytes in the uploaded file
    srcPos,        \* read position of the uploaded file
    chunk,         \* the chunk save_uploaded_file holds: <<offset, length>>
    outFile,       \* what was written to dest_path, in order, as chunks
    bytes_written, \* `written` of save_uploaded_file
    calls,         \* bytes_written of each progress_callback call (history)
    cbRaises,      \* progress_callback calls that raised (history)
    rcvPc          \* where save_uploaded_file is

vars == <<ffmpeg_proc, hasProcKey, sessLogs, logs, uiPc, procs, relay,
          relayLogs, reads, sigs, nStarts, written, lastOp,
          files, clock, nUploads, lastWrite,
          video_path, stream_key, is_shorts, cmd,
          srcSize, srcPos, chunk, outFile, bytes_written, calls, cbRaises,
          rcvPc>>

supVars == <<ffmpeg_proc, hasProcKey, sessLogs, logs, uiPc, procs, relay,
             relayLogs, reads, sigs, nStarts, written>>
upVars == <<files, clock, nUploads, lastWrite>>
cmdVars == <<video_path, stream_key, is_shorts, cmd>>
rcvVars == <<srcSize, srcPos, chunk, outFile, bytes_written, calls, cbRaises,
             rcvPc>>

\* ------------------------------------------------------------- LogBuffer
\* The writers of the log: 0 is the UI controller, p the reader thread of
\* child p.
Writers == 0..MaxStarts

\* An entry of a log list: the message, tagged with who appended it and
\* the ordinal of the append_log call among that writer's calls (the tag
\* stands for the timestamp and tells two equal messages apart).
Entry(msg, who, n) == [who |-> who, n |-> n, msg |-> msg]

\* logs[-n:]
LastN(s, n) == IF Len(s) <= n THEN s ELSE SubSeq(s, Len(s) - n + 1, Len(s))

\* The entries of the next append_log calls of writer who, one per message.
NewEntries(msgs, who) ==
    [i \in 1..Len(msgs) |-> Entry(msgs[i], who, written[who] + i)]

\* logs_trimmed = logs[-200:]
Trimmed(list) == LastN(list, LOG_LIMIT)

\* logs.append(...) by consecutive append_log calls on the list `list`
Grown(list, msgs, who) == list \o NewEntries(msgs, who)

\* Consecutive append_log calls by one caller (who) on its own list: each
\* call appends to the list and stores the trimmed copy in the session, so
\* after the last call the session holds the trim of the grown list.
append_log(list, msgs, who) ==
    /\ sessLogs' = Trimmed(Grown(list, msgs, who))
    /\ written' = [written EXCEPT ![who] = @ + Len(msgs)]

\* proc and proc.poll() is None
Running(h) == h # None /\ procs[h] = "alive"

\* What the step just taken did: the operation, its outcome (the message
\* the page shows), the child it concerns and the entries the request has
\* appended so far.
Op(op, res, p, gained) ==
    [op |-> op, res |-> res, p |-> p, gained |-> gained,
     selected |-> Placeholder, upload |-> "none", video |-> NoPath]

\* The same for a pass with the start button: also what the selectbox and
\* the uploader held in the pass and the video_path chosen from them.
StartOp(res, p, gained, selected, upload, video) ==
    [op |-> "start", res |-> res, p |-> p, gained |-> gained,
     selected |-> selected, upload |-> upload, video |-> video]

\* No upload has been written yet.
NoFile == [stem |-> <<>>, suffix |-> ""]

\* A new session: nothing stored, nothing uploaded.
InitSession ==
    /\ ffmpeg_proc = None
    /\ hasProcKey = FALSE
    /\ sessLogs = <<>>
    /\ logs = <<>>
    /\ uiPc = "idle"
    /\ procs = [p \in Pids |-> "unborn"]
    /\ relay = [p \in Pids |-> "none"]
    /\ relayLogs = [p \in Pids |-> <<>>]
    /\ reads = 0
    /\ sigs = [p \in Pids |-> <<>>]
    /\ nStarts = 0
    /\ written = [w \in Writers |-> 0]
    /\ lastOp = Op("init", "", None, 0)
    /\ files = {}
    /\ clock = 1
    /\ nUploads = 0
    /\ lastWrite = [dest |-> NoFile, existed |-> FALSE]

\* No call of start_ffmpeg is being followed.
NoCall ==
    /\ video_path = NoPath
    /\ stream_key = <<>>
    /\ is_shorts = FALSE
    /\ cmd = <<>>

\* No call of save_uploaded_file is being followed.
NoCopy ==
    /\ srcSize = 0
    /\ srcPos = 0
    /\ chunk = <<0, 0>>
    /\ outFile = <<>>
    /\ bytes_written = 0
    /\ calls = <<>>
    /\ cbRaises = 0
    /\ rcvPc = "idle"

Init == InitSession /\ NoCall /\ NoCopy

\* ------------------------------------------------------------ start
\* The start branch without its check of the stored handle.
StartVerdictNoCheck(hasVideo, hasKey, avail) ==
    IF ~hasVideo THEN "NoVideo"
    ELSE IF ~hasKey THEN "NoKey"
    ELSE IF ~avail THEN "BinaryNotFound"
    ELSE "accepted"

\* The start branch testing only that a handle is stored, without poll().
StartVerdictNoPoll(hasVideo, hasKey, avail) ==
    IF ~hasVideo THEN "NoVideo"
    ELSE IF ~hasKey THEN "NoKey"
    ELSE IF ~avail THEN "BinaryNotFound"
    ELSE IF ffmpeg_proc # None THEN "AlreadyRunning"
    ELSE "accepted"

\* The checks of the start branch, in the order the script makes them;
\* avail is what ffmpeg_available() returns in this pass.
StartVerdict(hasVideo, hasKey, avail) ==
    IF ~hasVideo THEN "NoVideo"
    ELSE IF ~hasKey THEN "NoKey"
    ELSE IF ~avail THEN "BinaryNotFound"
    ELSE IF Running(ffmpeg_proc) THEN "AlreadyRunning"
    ELSE "accepted"

\* saved_path: str(dest_path) after a save that succeeded, None with no
\* upload or after a save that raised.
SavedPath(upload) == IF upload = "saved" THEN SavedFile ELSE NoPath

\* The choice with the upload looked at first.
VideoPathUploadFirst(selected, saved) ==
    IF saved # NoPath THEN saved
    ELSE IF selected # Placeholder THEN selected
    ELSE NoPath

\* video_path: the selected file, else the saved upload, else None.
VideoPath(selected, saved) ==
    IF selected # Placeholder THEN selected
    ELSE IF saved # NoPath THEN saved
    ELSE NoPath

\* A pass with the start button pressed, up to the call of start_ffmpeg;
\* selected is what the selectbox holds and upload what became of the
\* uploader's file in this pass.
StartRequest(selected, upload, hasKey, avail) ==
    /\ uiPc = "idle"
    /\ nStarts < MaxStarts
    /\ LET video == VideoPath(selected, SavedPath(upload))
           v == StartVerdict(video # NoPath, hasKey, avail)
       IN
       IF v = "accepted"
       THEN /\ append_log(sessLogs, <<"Memulai streaming">>, 0)
            /\ logs' = Grown(sessLogs, <<"Memulai streaming">>, 0)
            /\ uiPc' = "spawn"
            /\ nStarts' = nStarts + 1
            /\ lastOp' = StartOp(v, nStarts + 1, 1, selected, upload, video)
       ELSE /\ lastOp' = StartOp(v, ffmpeg_proc, 0, selected, upload, video)
            /\ UNCHANGED <<sessLogs, logs, uiPc, nStarts, written>>
    /\ UNCHANGED <<ffmpeg_proc, hasProcKey, procs, relay, relayLogs, reads,
                   sigs>>
    /\ UNCHANGED <<upVars, cmdVars, rcvVars>>

\* What subprocess.Popen can do: spawn the child, raise FileNotFoundError
\* (the binary has left PATH since ffmpeg_available() ran), or raise
\* another OSError.
PopenOutcomes == {"ok", "FileNotFoundError", "OSError"}

\* st.session_state["ffmpeg_proc"] = proc
StoreHandle(p) == /\ ffmpeg_proc' = p
                  /\ hasProcKey' = TRUE

\* start_ffmpeg and the rest of the start branch.  The reader thread is
\* given the pass's append_log, so it keeps appending to the pass's list.
StartSpawn(out) ==
    /\ uiPc = "spawn"
    /\ out \in PopenOutcomes
    /\ LET p == nStarts IN
       \/ /\ out = "ok"
          /\ append_log(logs, <<"Menjalankan ffmpeg">>, 0)
          /\ relayLogs' = [relayLogs EXCEPT ![p] =
                              Grown(logs, <<"Menjalankan ffmpeg">>, 0)]
          /\ procs' = [procs EXCEPT ![p] = "alive"]
          /\ relay' = [relay EXCEPT ![p] = "reading"]
          /\ StoreHandle(p)
          /\ lastOp' = Op("spawn", "started", p, 2)
       \/ /\ out = "FileNotFoundError"
          /\ append_log(logs, <<"Menjalankan ffmpeg",
                                "Error: ffmpeg tidak ditemukan">>, 0)
          /\ lastOp' = Op("spawn", "BinaryNotFound", p, 3)
          /\ UNCHANGED <<ffmpeg_proc, hasProcKey, procs, relay, relayLogs>>
       \/ /\ out = "OSError"
          /\ append_log(logs, <<"Menjalankan ffmpeg">>, 0)
          /\ lastOp' = Op("spawn", "raised", p, 2)
          /\ UNCHANGED <<ffmpeg_proc, hasProcKey, procs, relay, relayLogs>>
    /\ logs' = <<>>
    /\ uiPc' = "idle"
    /\ UNCHANGED <<reads, sigs, nStarts>>
    /\ UNCHANGED <<upVars, cmdVars, rcvVars>>

\* ------------------------------------------------------------- stop
\* The stop branch testing only that a handle is stored, without poll().
StopVerdictNoPoll == IF ffmpeg_proc # None THEN "stopping" ELSE "nothing"

\* The check of the stop branch.
StopVerdict == IF Running(ffmpeg_proc) THEN "stopping" ELSE "nothing"

\* A pass with the stop button pressed, up to proc.terminate().
StopRequest ==
    /\ uiPc = "idle"
    /\ IF StopVerdict = "stopping"
       THEN /\ append_log(sessLogs, <<"Menghentikan proses ffmpeg...">>, 0)
            /\ logs' = Grown(sessLogs, <<"Menghentikan proses ffmpeg...">>, 0)
            /\ uiPc' = "terminate"
            /\ lastOp' = Op("stop", "stopping", ffmpeg_proc, 1)
       ELSE /\ lastOp' = Op("stop", "nothing", ffmpeg_proc, 0)
            /\ UNCHANGED <<sessLogs, logs, uiPc, written>>
    /\ UNCHANGED <<ffmpeg_proc, hasProcKey, procs, relay, relayLogs, reads,
                   sigs, nStarts>>
    /\ UNCHANGED <<upVars, cmdVars, rcvVars>>

\* st.session_state["ffmpeg_proc"] = None, after the try statement
ClearHandle == /\ ffmpeg_proc' = None
               /\ hasProcKey' = TRUE

\* The end of the stop branch with the handle cleared inside the try
\* statement, after the success message only.
StopDoneClearInTry(msg) ==
    /\ append_log(logs, <<msg>>, 0)
    /\ IF msg = "Proses ffmpeg dihentikan."
       THEN ClearHandle ELSE UNCHANGED <<ffmpeg_proc, hasProcKey>>
    /\ logs' = <<>>
    /\ uiPc' = "idle"

\* The end of the stop branch: the last message and the cleared handle.
StopDone(msg) ==
    /\ append_log(logs, <<msg>>, 0)
    /\ ClearHandle
    /\ logs' = <<>>
    /\ uiPc' = "idle"

\* proc.terminate(): it raises, or it sends SIGTERM to a child that has
\* not exited (and does nothing for one that has).
StopTerminate(raises) ==
    /\ uiPc = "terminate"
    /\ LET p == ffmpeg_proc IN
       \/ /\ raises
          /\ procs[p] = "alive"
          /\ StopDone("Gagal menghentikan ffmpeg")
          /\ lastOp' = Op("terminate", "raised", p, 2)
          /\ UNCHANGED sigs
       \/ /\ ~raises
          /\ sigs' = IF procs[p] = "alive"
                     THEN [sigs EXCEPT ![p] = Append(@, "TERM")] ELSE sigs
          /\ uiPc' = "wait"
          /\ lastOp' = Op("terminate", "sent", p, 1)
          /\ UNCHANGED <<ffmpeg_proc, hasProcKey, sessLogs, logs, written>>
    /\ UNCHANGED <<procs, relay, relayLogs, reads, nStarts>>
    /\ UNCHANGED <<upVars, cmdVars, rcvVars>>

\* The stop branch calling proc.kill() whatever proc.wait() found.
StopWaitKillAlways(raises) ==
    /\ uiPc = "wait"
    /\ LET p == ffmpeg_proc IN
       \/ /\ ~raises
          /\ sigs' = [sigs EXCEPT ![p] = Append(@, "KILL")]
          /\ procs' = [procs EXCEPT ![p] = "exited"]
          /\ StopDone("Proses ffmpeg dihentikan.")
          /\ lastOp' = Op("wait", "killed", p, 2)
       \/ /\ procs[p] = "alive"
          /\ raises
          /\ StopDone("Gagal menghentikan ffmpeg")
          /\ lastOp' = Op("wait", "killRaised", p, 2)
          /\ UNCHANGED <<procs, sigs>>
    /\ UNCHANGED <<relay, relayLogs, reads, nStarts>>
    /\ UNCHANGED <<upVars, cmdVars, rcvVars>>

\* proc.wait(timeout=5): it returns for a child that has exited; for one
\* still alive it times out and proc.kill() follows, which kills the child
\* or raises.
StopWait(raises) ==
    /\ uiPc = "wait"
    /\ LET p == ffmpeg_proc IN
       \/ /\ procs[p] = "exited"
          /\ ~raises
          /\ StopDone("Proses ffmpeg dihentikan.")
          /\ lastOp' = Op("wait", "exited", p, 2)
          /\ UNCHANGED <<procs, sigs>>
       \/ /\ procs[p] = "alive"
          /\ ~raises
          /\ sigs' = [sigs EXCEPT ![p] = Append(@, "KILL")]
          /\ procs' = [procs EXCEPT ![p] = "exited"]
          /\ StopDone("Proses ffmpeg dihentikan.")
          /\ lastOp' = Op("wait", "killed", p, 2)
       \/ /\ procs[p] = "alive"
          /\ raises
          /\ StopDone("Gagal menghentikan ffmpeg")
          /\ lastOp' = Op("wait", "killRaised", p, 2)
          /\ UNCHANGED <<procs, sigs>>
    /\ UNCHANGED <<relay, relayLogs, reads, nStarts>>
    /\ UNCHANGED <<upVars, cmdVars, rcvVars>>

\* ------------------------------------------------- child and relay
\* The encoder exits on its own, or in answer to SIGTERM.
ChildExit(p) ==
    /\ procs[p] = "alive"
    /\ procs' = [procs EXCEPT ![p] = "exited"]
    /\ lastOp' = Op("exit", "", p, 0)
    /\ UNCHANGED <<ffmpeg_proc, hasProcKey, sessLogs, logs, uiPc, relay,
                   relayLogs, reads, sigs, nStarts, written>>
    /\ UNCHANGED <<upVars, cmdVars, rcvVars>>

\* reader_thread: n iterations of the loop, one writer(line.strip()) each.
RelayLines(p, n) ==
    /\ relay[p] = "reading"
    /\ reads < MaxReads
    /\ append_log(relayLogs[p], [i \in 1..n |-> "line"], p)
    /\ relayLogs' = [relayLogs EXCEPT ![p] =
                        Grown(@, [i \in 1..n |-> "line"], p)]
    /\ reads' = reads + 1
    /\ lastOp' = Op("relay", "lines", p, n)
    /\ UNCHANGED <<ffmpeg_proc, hasProcKey, logs, uiPc, procs, relay, sigs,
                   nStarts>>
    /\ UNCHANGED <<upVars, cmdVars, rcvVars>>

\* reader_thread with no finally clause: the thread ends after the
\* messages of the path that led to its end.
RelayFinallyNoMarker(p, msgs) ==
    /\ append_log(relayLogs[p], msgs, p)
    /\ relay' = [relay EXCEPT ![p] = "done"]
    /\ relayLogs' = [relayLogs EXCEPT ![p] = <<>>]

\* The finally clause of reader_thread: the terminal marker, after the
\* messages msgs of the path that led there; then the thread ends and its
\* list with it.
RelayFinally(p, msgs) ==
    /\ append_log(relayLogs[p], Append(msgs, ">> Proses ffmpeg berakhir."), p)
    /\ relay' = [relay EXCEPT ![p] = "done"]
    /\ relayLogs' = [relayLogs EXCEPT ![p] = <<>>]

\* reader_thread: readline returns '' at end-of-stream, once the child has
\* exited and the pipe is drained.
RelayEnd(p) ==
    /\ relay[p] = "reading"
    /\ procs[p] = "exited"
    /\ RelayFinally(p, <<>>)
    /\ lastOp' = Op("relay", "eof", p, 1)
    /\ UNCHANGED <<ffmpeg_proc, hasProcKey, logs, uiPc, procs, reads, sigs,
                   nStarts>>
    /\ UNCHANGED <<upVars, cmdVars, rcvVars>>

\* reader_thread: a read raises; the except clause reports it.
RelayReadError(p) ==
    /\ relay[p] = "reading"
    /\ reads < MaxReads
    /\ RelayFinally(p, <<"Error membaca ffmpeg output">>)
    /\ reads' = reads + 1
    /\ lastOp' = Op("relay", "error", p, 2)
    /\ UNCHANGED <<ffmpeg_proc, hasProcKey, logs, uiPc, procs, sigs, nStarts>>
    /\ UNCHANGED <<upVars, cmdVars, rcvVars>>

Next ==
    \/ \E selected \in Selections, upload \in UploadOutcomes,
          hasKey \in BOOLEAN, avail \in BOOLEAN :
          StartRequest(selected, upload, hasKey, avail)
    \/ \E out \in PopenOutcomes : StartSpawn(out)
    \/ StopRequest
    \/ \E raises \in BOOLEAN : StopTerminate(raises)
    \/ \E raises \in BOOLEAN : StopWait(raises)
    \/ \E p \in Pids : ChildExit(p)
    \/ \E p \in Pids, n \in Bursts : RelayLines(p, n)
    \/ \E p \in Pids : RelayEnd(p)
    \/ \E p \in Pids : RelayReadError(p)

Spec == Init /\ [][Next]_vars

\* The reader threads are scheduled: a thread whose readline can return
\* end-of-stream gets to run.
SpecRelay == Spec /\ \A p \in Pids : WF_vars(RelayEnd(p))

\* ------------------------------------------------------------ uploads
\* A name in uploads/ is its stem, as the parts joined by "_", and its
\* suffix: f"{dest_path.stem}_{stamp}{dest_path.suffix}" appends a part.
Name(stem, suffix) == [stem |-> stem, suffix |-> suffix]

Stamped(name, stamp) == Name(Append(name.stem, stamp), name.suffix)

\* The names a browser can upload: plain ones, and ones that already end
\* in "_<number>".
UploadNames ==
    {Name(s, x) : s \in Stems, x \in Suffixes}
      \cup {Name(Append(s, t), x) : s \in Stems, t \in 1..MaxClock, x \in Suffixes}

\* dest_path as main() chooses it
DestPath(name) == IF name \in files THEN Stamped(name, clock) ELSE name

\* A pass with `name` in the uploader: open(dest_path, "wb") and the copy.
Upload(name) ==
    /\ nUploads < MaxUploads
    /\ LET dest == DestPath(name) IN
       /\ lastWrite' = [dest |-> dest, existed |-> dest \in files]
       /\ files' = files \cup {dest}
    /\ nUploads' = nUploads + 1
    /\ UNCHANGED clock
    /\ UNCHANGED <<supVars, lastOp, cmdVars, rcvVars>>

\* time.time() reaches the next second.
Tick ==
    /\ clock < MaxClock
    /\ clock' = clock + 1
    /\ UNCHANGED <<files, nUploads, lastWrite>>
    /\ UNCHANGED <<supVars, lastOp, cmdVars, rcvVars>>

NextUpload ==
    \/ \E name \in UploadNames : Upload(name)
    \/ Tick

SpecUpload == Init /\ [][NextUpload]_vars

\* ------------------------------------------------------ encoder command
\* One argument of the command line: a string, kept as the sequence of
\* the pieces it is made of.
Arg(s) == <<s>>

\* f"rtmp://a.rtmp.youtube.com/live2/{stream_key}"
OutputUrl(key) == Arg("rtmp://a.rtmp.youtube.com/live2/") \o key

\* The scale filter given in both modes.
ScaleArgAlways(shorts) == <<Arg("-vf"), Arg("scale=720:1280")>>

\* scale_arg = ["-vf", "scale=720:1280"] if is_shorts else []
ScaleArg(shorts) ==
    IF shorts THEN <<Arg("-vf"), Arg("scale=720:1280")>> ELSE <<>>

\* The list cmd of start_ffmpeg.
Cmd(video, key, shorts) ==
    <<Arg("ffmpeg"), Arg("-re"), Arg("-stream_loop"), Arg("-1"),
      Arg("-i"), Arg(video),
      Arg("-c:v"), Arg("libx264"), Arg("-preset"), Arg("veryfast"),
      Arg("-b:v"), Arg("2500k"), Arg("-maxrate"), Arg("2500k"),
      Arg("-bufsize"), Arg("5000k"),
      Arg("-g"), Arg("60"), Arg("-keyint_min"), Arg("60"),
      Arg("-c:a"), Arg("aac"), Arg("-b:a"), Arg("128k")>>
      \o ScaleArg(shorts)
      \o <<Arg("-f"), Arg("flv"), OutputUrl(key)>>

\* A call of start_ffmpeg with a file the page offers, a key that is not
\* empty (the start branch rejects an empty one) and either mode.
InitCmd ==
    /\ InitSession
    /\ video_path \in VideoPaths
    /\ stream_key \in Keys
    /\ is_shorts \in BOOLEAN
    /\ cmd = <<>>
    /\ NoCopy

\* start_ffmpeg builds the command.
BuildCmd ==
    /\ cmd = <<>>
    /\ cmd' = Cmd(video_path, stream_key, is_shorts)
    /\ UNCHANGED <<video_path, stream_key, is_shorts>>
    /\ UNCHANGED <<supVars, lastOp, upVars, rcvVars>>

NextCmd == BuildCmd

SpecCmd == InitCmd /\ [][NextCmd]_vars

\* ------------------------------------------------------- chunked copy
\* A byte of the upload is known by its offset in the source, and a run
\* of consecutive bytes by <<offset, length>>; the destination file is the
\* sequence of the runs written to it.
\*
\* Sizes around the chunk boundaries: empty, less than a chunk, whole
\* chunks, and whole chunks with a short or a nearly full tail.
Sizes ==
    {k * CHUNK_SIZE + d : k \in 0..MaxChunks, d \in {0, 1, CHUNK_SIZE - 1}}

Min(a, b) == IF a <= b THEN a ELSE b

\* The copy without the rewind: the position is where it was.
SeekPosKept(pos) == pos

\* uploaded_file.seek(0)
SeekPos(pos) == 0

\* The callback given the length of the chunk.
CallbackArgChunk(bw, ch) == ch[2]

\* progress_callback(written, total): its first argument
CallbackArg(bw, ch) == bw

\* The loop with no try statement around the callback.
AfterCallbackAbort(raises) == IF raises THEN "failed" ELSE "read"

\* try: progress_callback(...) except Exception: pass -- on to the next
\* read either way
AfterCallback(raises) == "read"

\* A pass saves an upload of any of the sizes; the object read may have
\* been read to its end by an earlier pass.
InitCopy ==
    /\ InitSession
    /\ NoCall
    /\ srcSize \in Sizes
    /\ srcPos \in {0, srcSize}
    /\ chunk = <<0, 0>>
    /\ outFile = <<>>
    /\ bytes_written = 0
    /\ calls = <<>>
    /\ cbRaises = 0
    /\ rcvPc = "seek"

\* The rewind, written = 0 and open(dest_path, "wb").
SaveBegin ==
    /\ rcvPc = "seek"
    /\ srcPos' = SeekPos(srcPos)
    /\ bytes_written' = 0
    /\ outFile' = <<>>
    /\ rcvPc' = "read"
    /\ UNCHANGED <<srcSize, chunk, calls, cbRaises>>
    /\ UNCHANGED <<supVars, lastOp, upVars, cmdVars>>

\* chunk = uploaded_file.read(chunk_size); if not chunk: break
ReadChunk ==
    /\ rcvPc = "read"
    /\ LET n == Min(CHUNK_SIZE, srcSize - srcPos) IN
       /\ chunk' = <<srcPos, n>>
       /\ srcPos' = srcPos + n
       /\ rcvPc' = IF n = 0 THEN "done" ELSE "write"
    /\ UNCHANGED <<srcSize, outFile, bytes_written, calls, cbRaises>>
    /\ UNCHANGED <<supVars, lastOp, upVars, cmdVars>>

\* f.write(chunk); written += len(chunk) -- or the write raises, having
\* put none or a part of the chunk in the file, and the exception leaves
\* save_uploaded_file.
WriteChunk(ok) ==
    /\ rcvPc = "write"
    /\ \/ /\ ok
          /\ outFile' = Append(outFile, chunk)
          /\ bytes_written' = bytes_written + chunk[2]
          /\ rcvPc' = "callback"
       \/ /\ ~ok
          /\ \E k \in {0, chunk[2] \div 2} :
                outFile' = IF k = 0 THEN outFile
                           ELSE Append(outFile, <<chunk[1], k>>)
          /\ rcvPc' = "failed"
          /\ UNCHANGED bytes_written
    /\ UNCHANGED <<srcSize, srcPos, chunk, calls, cbRaises>>
    /\ UNCHANGED <<supVars, lastOp, upVars, cmdVars>>

\* The call of progress_callback, which returns or raises.
Callback(raises) ==
    /\ rcvPc = "callback"
    /\ calls' = Append(calls, CallbackArg(bytes_written, chunk))
    /\ cbRaises' = IF raises THEN cbRaises + 1 ELSE cbRaises
    /\ rcvPc' = AfterCallback(raises)
    /\ UNCHANGED <<srcSize, srcPos, chunk, outFile, bytes_written>>
    /\ UNCHANGED <<supVars, lastOp, upVars, cmdVars>>

NextCopy ==
    \/ SaveBegin
    \/ ReadChunk
    \/ \E ok \in BOOLEAN : WriteChunk(ok)
    \/ \E raises \in BOOLEAN : Callback(raises)

SpecCopy == InitCopy /\ [][NextCopy]_vars

\* ===================================================================
\* Properties
\* ===================================================================
Alive == {p \in Pids : procs[p] = "alive"}

\* The stored handle refers to a child that has not exited.
HandleAlive == ffmpeg_proc # None /\ procs[ffmpeg_proc] = "alive"

\* The step taken is the pass that completes a stop of a running job.
StopCompletes == uiPc \in {"terminate", "wait"} /\ uiPc' = "idle"

\* C1: in every reachable state at most one child spawned by the session
\* is alive.
C1_AtMostOneAlive == Cardinality(Alive) <= 1

\* C2: a start request made while the stored handle refers to a running
\* process is rejected: no process is spawned, no relay thread is created
\* and the stored handle is the same afterwards.
C2_StartWhileRunningRejected ==
    [][(lastOp'.op = "start" /\ HandleAlive)
        => /\ uiPc' = "idle"
           /\ UNCHANGED <<procs, relay, relayLogs, nStarts>>
           /\ UNCHANGED <<ffmpeg_proc, hasProcKey>>]_vars

C2_Witness ==
    /\ lastOp.op = "start"
    /\ lastOp.res = "AlreadyRunning"
    /\ HandleAlive
    /\ relay[ffmpeg_proc] = "reading"

\* C3: a stop request made when no process is active (no handle, None, or
\* a handle to an exited process) does nothing: no signal is sent, nothing
\* is appended to the LogBuffer, the stored handle is unchanged, and so a
\* repeated request leaves the same state.
C3_StopIdleNoOp ==
    [][(lastOp'.op = "stop" /\ ~HandleAlive)
        => /\ lastOp'.res = "nothing"
           /\ UNCHANGED <<ffmpeg_proc, hasProcKey, sessLogs, written, logs>>
           /\ UNCHANGED <<sigs, procs, relay, relayLogs, uiPc>>]_vars

C3_Witness ==
    /\ lastOp.op = "stop"
    /\ lastOp.res = "nothing"
    /\ ffmpeg_proc # None
    /\ procs[ffmpeg_proc] = "exited"
    /\ sessLogs # <<>>

\* C4: when a stop of a running job completes, the stored handle is None,
\* whether the child exited within the wait, was killed after the timeout,
\* or terminate or kill raised.
C4_StopClearsHandle ==
    [][StopCompletes => (ffmpeg_proc' = None /\ hasProcKey')]_vars

C4_Witness ==
    /\ lastOp.op = "terminate"
    /\ lastOp.res = "raised"
    /\ uiPc = "idle"
    /\ ffmpeg_proc = None

\* C5: once a stop of a running job has completed, whatever its outcome,
\* the child that was running is no longer alive and no job is active.
C5_StoppedAfterStop ==
    (lastOp.op \in {"terminate", "wait"} /\ uiPc = "idle")
        => (procs[lastOp.p] # "alive" /\ ~HandleAlive)

\* Who appended an entry and as which of its appends.
Tag(e) == <<e.who, e.n>>
Tags(list) == [i \in 1..Len(list) |-> Tag(list[i])]

\* The tags of the entries the step taken appends, in order.
Batch ==
    IF written' = written THEN <<>>
    ELSE LET w == CHOOSE w \in Writers : written'[w] # written[w]
         IN  [i \in 1..(written'[w] - written[w]) |-> <<w, written[w] + i>>]

\* C6: the LogBuffer never holds more than 200 entries, and every append
\* leaves in it the most recent (at most 200) appended entries in
\* insertion order: what was there, then what the step appends, less the
\* oldest beyond 200.
C6_LogIsLastEntries ==
    [][/\ Len(sessLogs') <= LOG_LIMIT
       /\ Tags(sessLogs') = LastN(Tags(sessLogs) \o Batch, LOG_LIMIT)]_vars

\* The size bound of C6 alone.
LogBounded == Len(sessLogs) <= LOG_LIMIT

\* C7: an entry, once appended, stays in the LogBuffer in insertion order
\* until it is evicted as one of the oldest: a step only drops entries
\* from the old end and adds the ones it appends at the new end.
C7_NoEntryLost ==
    [][\E k \in 0..Len(sessLogs) :
          Tags(sessLogs') =
              SubSeq(Tags(sessLogs), k + 1, Len(sessLogs)) \o Batch]_vars

\* C8: after a child exited on its own with its handle still stored, the
\* check of the handle reports it as not running and a start request with
\* video, key and encoder available is accepted; the spawn that follows
\* makes a new process and stores its handle.
C8_StartAfterExitAccepted ==
    [][/\ (/\ lastOp'.op = "start"
           /\ ffmpeg_proc # None
           /\ procs[ffmpeg_proc] = "exited"
           /\ lastOp'.res \notin {"NoVideo", "NoKey", "BinaryNotFound"})
          => (lastOp'.res = "accepted" /\ uiPc' = "spawn")
       /\ (lastOp'.op = "spawn" /\ lastOp'.res = "started")
          => /\ ffmpeg_proc' = lastOp'.p
             /\ procs[lastOp'.p] = "unborn"
             /\ procs'[lastOp'.p] = "alive"
             /\ relay'[lastOp'.p] = "reading"]_vars

C8_Witness ==
    /\ lastOp.op = "start"
    /\ lastOp.res = "accepted"
    /\ uiPc = "spawn"
    /\ ffmpeg_proc # None
    /\ procs[ffmpeg_proc] = "exited"
    /\ sigs[ffmpeg_proc] = <<>>

\* C9: a start request that fails because the encoder binary is absent
\* reports the error, stores no handle, and adds exactly one entry to the
\* LogBuffer.
C9_BinaryAbsentOneEntry ==
    [][(lastOp'.op \in {"start", "spawn"} /\ lastOp'.res = "BinaryNotFound")
        => /\ uiPc' = "idle"
           /\ UNCHANGED <<ffmpeg_proc, hasProcKey>>
           /\ lastOp'.gained = 1]_vars

\* C10: the path an upload is written to is one at which no file existed
\* before the write.
C10_NeverOverwrites == ~lastWrite.existed

\* The scale filter and its value are consecutive arguments of c.
HasScale(c) ==
    \E i \in 1..(Len(c) - 1) :
        c[i] = Arg("-vf") /\ c[i + 1] = Arg("scale=720:1280")

\* c without the arguments of the scale filter.
WithoutScale(c) ==
    LET Other(a) == a \notin {Arg("-vf"), Arg("scale=720:1280")}
    IN  SelectSeq(c, Other)

\* C11: the command start builds ends with the publish URL, which is the
\* fixed RTMP prefix followed by the stream key unchanged; it holds the
\* scale filter (-vf, scale=720:1280) exactly when the mode is vertical;
\* and all its other arguments are the same in both modes.
C11_CommandShape ==
    cmd # <<>>
      => /\ cmd[Len(cmd)] = <<"rtmp://a.rtmp.youtube.com/live2/">> \o stream_key
         /\ HasScale(cmd) <=> is_shorts
         /\ ~is_shorts => \A i \in 1..Len(cmd) : cmd[i] # Arg("-vf")
         /\ WithoutScale(cmd)
              = WithoutScale(Cmd(video_path, stream_key, ~is_shorts))

C11_Witness ==
    /\ cmd # <<>>
    /\ is_shorts
    /\ HasScale(cmd)
    /\ Len(stream_key) > 1
    /\ Len(cmd[Len(cmd)]) = Len(stream_key) + 1

\* The offset after the last byte written.
DestEnd ==
    IF outFile = <<>> THEN 0
    ELSE outFile[Len(outFile)][1] + outFile[Len(outFile)][2]

\* Every run of the destination starts where the one before it ends, the
\* first at offset 0: the byte at each offset of the destination is the
\* byte at that offset of the source.
DestIsPrefix ==
    \A i \in 1..Len(outFile) :
        /\ outFile[i][2] > 0
        /\ outFile[i][1] = IF i = 1 THEN 0
                           ELSE outFile[i - 1][1] + outFile[i - 1][2]

\* C12: for every source size (empty, less than a chunk, a multiple of the
\* chunk size or not), when the copy completes without a write failure the
\* destination holds the bytes of the source, all of them and in order;
\* and the receiver never holds more than one chunk of the source.
C12_CopyIdentical ==
    /\ chunk[2] <= CHUNK_SIZE
    /\ rcvPc = "done" => (DestIsPrefix /\ DestEnd = srcSize)

C12_Witness ==
    /\ rcvPc = "done"
    /\ Len(outFile) >= 2
    /\ srcSize % CHUNK_SIZE # 0
    /\ DestEnd = srcSize

\* C13: a stop signals the child in the order terminate, then wait, then
\* kill: the first signal a child gets is TERM, sent by terminate(); KILL
\* is sent only after TERM, by the wait step, and only to a child that has
\* not exited by the end of the wait; a child that exited within the wait
\* gets no further signal.
C13_TermThenKill ==
    [][/\ \A p \in Pids :
            sigs'[p] # sigs[p]
              => \/ /\ sigs[p] = <<>>
                    /\ sigs'[p] = <<"TERM">>
                    /\ uiPc = "terminate"
                 \/ /\ sigs[p] = <<"TERM">>
                    /\ sigs'[p] = <<"TERM", "KILL">>
                    /\ uiPc = "wait"
                    /\ procs[p] = "alive"
       /\ (uiPc = "wait" /\ procs[ffmpeg_proc] = "exited")
            => UNCHANGED sigs]_vars

C13_Witness ==
    /\ lastOp.op = "wait"
    /\ lastOp.res = "killed"
    /\ sigs[lastOp.p] = <<"TERM", "KILL">>
    /\ procs[lastOp.p] = "exited"

\* C14: every spawn that fails, for a missing binary or for another
\* reason, is caught inside start: the failure does not leave the start
\* operation as an exception, its error entry is the last of the
\* LogBuffer, no handle to the child that was to be spawned is stored and
\* the controller is ready for the next request.
C14_SpawnFailureCaught ==
    (lastOp.op = "spawn" /\ lastOp.res # "started")
      => /\ lastOp.res # "raised"
         /\ sessLogs # <<>>
         /\ sessLogs[Len(sessLogs)].msg = "Error: ffmpeg tidak ditemukan"
         /\ ffmpeg_proc # lastOp.p
         /\ uiPc = "idle"

Marker == ">> Proses ffmpeg berakhir."

\* C15: the relay thread of every spawned child, once the child's output
\* has reached end-of-stream, ends; the step that ends it, at
\* end-of-stream or after a failed read, appends the terminal marker as
\* the thread's last entry, after every line it relayed; the thread
\* appends no marker before that step and nothing after it.
C15_MarkerOnceAndLast ==
    /\ [][\A p \in Pids :
            /\ (relay[p] = "reading" /\ relay'[p] = "done")
                 => /\ written'[p] > written[p]
                    /\ sessLogs'[Len(sessLogs')] = Entry(Marker, p, written'[p])
            /\ relay[p] = "done"
                 => (relay'[p] = "done" /\ written'[p] = written[p])]_vars
    /\ [](\A p \in Pids : \A i \in 1..Len(relayLogs[p]) :
             relayLogs[p][i].who = p => relayLogs[p][i].msg # Marker)
    /\ \A p \in Pids :
          (relay[p] = "reading" /\ procs[p] = "exited") ~> (relay[p] = "done")

C15_Witness ==
    /\ lastOp.op = "relay"
    /\ lastOp.res = "eof"
    /\ relay[lastOp.p] = "done"
    /\ written[lastOp.p] > 1
    /\ sessLogs[Len(sessLogs)] = Entry(Marker, lastOp.p, written[lastOp.p])

\* C16: the list a relay thread appends into holds at most 200 entries,
\* however many lines the thread has relayed.
C16_RelayListBounded ==
    \A p \in Pids : Len(relayLogs[p]) <= LOG_LIMIT

\* The step just taken ended a pass of the script that a button started.
PassEnded ==
    /\ lastOp.op \in {"start", "spawn", "stop", "terminate", "wait"}
    /\ uiPc = "idle"

\* C17: the stored handle is released on process exit as well as on stop:
\* after a pass of the script has run, the session stores no handle to a
\* child that has exited.
C17_HandleReleasedOnExit ==
    PassEnded => ~(ffmpeg_proc # None /\ procs[ffmpeg_proc] = "exited")

\* C18: the progress callback is called once after each chunk written,
\* and not otherwise; the bytes_written it is given never decrease and
\* grow by at most one chunk size from one call to the next; and after
\* the last call it is the number of bytes written.
C18_ProgressCalls ==
    /\ rcvPc \in {"read", "write", "done"} => Len(calls) = Len(outFile)
    /\ rcvPc = "callback" => Len(calls) + 1 = Len(outFile)
    /\ \A i \in 1..Len(calls) :
          LET prev == IF i = 1 THEN 0 ELSE calls[i - 1]
          IN  calls[i] >= prev /\ calls[i] - prev <= CHUNK_SIZE
    /\ (rcvPc \in {"read", "done"} /\ calls # <<>>)
          => calls[Len(calls)] = DestEnd

C18_Witness ==
    /\ rcvPc = "done"
    /\ Len(calls) >= 2
    /\ calls[1] = CHUNK_SIZE
    /\ calls[Len(calls)] = srcSize
    /\ calls[Len(calls)] - calls[Len(calls) - 1] < CHUNK_SIZE

\* C19: a progress callback that raises neither aborts nor alters the
\* copy: the loop goes on to its next read with the file, the count and
\* the read position as they were, and a copy in which callbacks raised
\* ends with the destination holding the bytes of the source.
C19_CallbackFailureIgnored ==
    /\ [][(rcvPc = "callback" /\ cbRaises' > cbRaises)
            => /\ rcvPc' = "read"
               /\ UNCHANGED <<outFile, bytes_written, srcPos, srcSize>>]_vars
    /\ []((rcvPc = "done" /\ cbRaises > 0)
            => (DestIsPrefix /\ DestEnd = srcSize))

C19_Witness ==
    /\ rcvPc = "done"
    /\ Len(outFile) >= 2
    /\ cbRaises = Len(calls)
    /\ DestEnd = srcSize

\* C20: the video path of a start request is chosen with fixed
\* precedence: a file selected in the selectbox is used, even if an upload
\* was saved in the same pass; the saved upload is used only when nothing
\* is selected; and with nothing selected and no saved upload (none, or a
\* save that failed) there is no path and the request is rejected: no
\* child is spawned, and the stored handle and the LogBuffer stay as they
\* were.
C20_VideoPathPrecedence ==
    [][lastOp'.op = "start"
        => /\ lastOp'.selected # Placeholder
                => lastOp'.video = lastOp'.selected
           /\ (lastOp'.selected = Placeholder /\ lastOp'.upload = "saved")
                => lastOp'.video = SavedFile
           /\ (lastOp'.selected = Placeholder /\ lastOp'.upload # "saved")
                => /\ lastOp'.video = NoPath
                   /\ lastOp'.res = "NoVideo"
                   /\ UNCHANGED <<procs, relay, relayLogs, nStarts, uiPc>>
                   /\ UNCHANGED <<ffmpeg_proc, hasProcKey, sessLogs, written>>
           /\ lastOp'.video # NoPath => lastOp'.res # "NoVideo"]_vars

C20_Witness ==
    /\ lastOp.op = "start"
    /\ lastOp.selected # Placeholder
    /\ lastOp.upload = "saved"
    /\ lastOp.video = lastOp.selected
    /\ lastOp.res = "accepted"

====
